---- MODULE Spec2Model ----
(***************************************************************************)
(* Model of notifier.py: a run of main() fetches two listings and one      *)
(* detail record, compares them with the snapshot in state.json, sends a   *)
(* Telegram message about the changes and overwrites the snapshot.         *)
(*                                                                         *)
(* Python values are modelled as follows.                                  *)
(*   Optional value      a sequence of length <= 1: <<>> is None / absent, *)
(*                       <<v>> is the value v                              *)
(*   identifier (str)    a string of IdOrder, which lists the identifiers  *)
(*                       in Python's string order                          *)
(*   sha (str)           a sequence of hex digits, <<>> is ""              *)
(*   dict                a function over the keys that are present         *)
(*   state.json          the Optional snapshot it holds (json.dump then    *)
(*                       json.load returns an equal dict for the str, list *)
(*                       and None values a snapshot is made of)            *)
(***************************************************************************)
EXTENDS Integers, Sequences, FiniteSets, TLC

\* ---------------------------------------------------------------- bounds
MaxLen == 2          \* longest listing handed to detect_changes (DetectSpec)
MaxClock == 2        \* number of runs of main() in one behaviour (Spec)
ShaPrefixLen == 12   \* new_detail['sha'][:12]

\* ------------------------------------------------------------ value sets
IdOrder == <<"jane-street/a", "jane-street/b">>
Ids == {IdOrder[i] : i \in DOMAIN IdOrder}
Rank(id) == CHOOSE i \in DOMAIN IdOrder : IdOrder[i] = id

None == <<>>
Some(v) == <<v>>

LongSha == [i \in 1..13 |-> IF i = 13 THEN 1 ELSE 0]
Shas == {<<7>>, LongSha}
\* what data.get("sha") can return: None, "" or a sha
ShaValues == {None, Some(<<>>)} \cup {Some(s) : s \in Shas}
LastModValues == {None, Some("2024-01-01")}

\* Python truthiness of an Optional str
Truthy(v) == Len(v) = 1 /\ Len(v[1]) > 0

EmptyDict == [k \in {} |-> None]
\* dict.get(k, default)
Get(d, k, default) == IF k \in DOMAIN d THEN d[k] ELSE default

\* ------------------------------------------------------- sorting and sets
SetOf(s) == {s[i] : i \in DOMAIN s}

RECURSIVE Insert(_, _)
Insert(x, s) ==
    IF s = <<>> THEN <<x>>
    ELSE IF Rank(x) <= Rank(Head(s)) THEN <<x>> \o s
    ELSE <<Head(s)>> \o Insert(x, Tail(s))

\* sorted(iterable) over a list
RECURSIVE sorted(_)
sorted(s) == IF s = <<>> THEN <<>> ELSE Insert(Head(s), sorted(Tail(s)))

\* sorted(a_set)
RECURSIVE sorted_set(_)
sorted_set(S) ==
    IF S = {} THEN <<>>
    ELSE LET m == CHOOSE x \in S : \A y \in S : Rank(x) <= Rank(y)
         IN <<m>> \o sorted_set(S \ {m})

Take(s, n) == SubSeq(s, 1, IF Len(s) < n THEN Len(s) ELSE n)

\* ---------------------------------------------------------- detect_changes
Change(priority, text, id, sha) ==
    [priority |-> priority, text |-> text, id |-> id, sha |-> sha]

\* lines 61-62 and 65-66: sorted(set(new) - set(old))
NewIds_nodedupe(new_ids, old_ids) ==
    LET Fresh(x) == x \notin SetOf(old_ids) IN SelectSeq(sorted(new_ids), Fresh)

NewIds(new_ids, old_ids) == sorted_set(SetOf(new_ids) \ SetOf(old_ids))

\* lines 71-72: both shas truthy, and different
ShaChanged_notnone(old_sha, new_sha) ==
    old_sha # None /\ new_sha # None /\ old_sha[1] # new_sha[1]

ShaChanged_nocompare(old_sha, new_sha) == Truthy(old_sha) /\ Truthy(new_sha)

ShaChanged(old_sha, new_sha) ==
    Truthy(old_sha) /\ Truthy(new_sha) /\ old_sha[1] # new_sha[1]

detect_changes(old_state, new_state) ==
    LET ss == NewIds(new_state["space_ids"], old_state["space_ids"])
        ms == NewIds(new_state["model_ids"], old_state["model_ids"])
        old_detail == Get(old_state, "watched_space", EmptyDict)
        new_detail == Get(new_state, "watched_space", EmptyDict)
        old_sha == Get(old_detail, "sha", None)
        new_sha == Get(new_detail, "sha", None)
    IN  [i \in 1..Len(ss) |-> Change("HIGH", "New Space: ", ss[i], <<>>)]
        \o [i \in 1..Len(ms) |-> Change("MEDIUM", "New Model: ", ms[i], <<>>)]
        \o (IF ShaChanged(old_sha, new_sha)
            THEN <<Change("MEDIUM", "Puzzle space updated (sha: ", "",
                          Take(new_sha[1], ShaPrefixLen))>>
            ELSE <<>>)

\* ------------------------------------------------------------ format_alert
format_alert(changes) ==
    [header |-> "<b>Jane Street HuggingFace Activity</b>",
     lines  |-> [i \in 1..Len(changes) |->
                   [icon |-> IF changes[i].priority = "HIGH" THEN "siren"
                             ELSE IF changes[i].priority = "MEDIUM" THEN "package"
                             ELSE "info",
                    priority |-> changes[i].priority,
                    msg |-> <<changes[i].text, changes[i].id>>,
                    sha |-> changes[i].sha]],
     footer |-> "https://huggingface.co/jane-street"]

\* ------------------------------------------------------------ HTTP inputs
\* A listing response: the request raises (neterr), or answers with a status
\* and a body that is not JSON, a JSON array of {"id": ...} objects with
\* distinct ids, or a non-empty JSON object such as {"error": "..."}.
ListBodies ==
    {s \in UNION {[1..n -> Ids] : n \in 0..Cardinality(Ids)} :
        \A i, j \in DOMAIN s : s[i] = s[j] => i = j}

ListResponses ==
    {[status |-> "neterr", kind |-> "none", items |-> <<>>]}
    \cup {[status |-> st, kind |-> k, items |-> <<>>] :
            st \in {"2xx", "non2xx"}, k \in {"invalid", "object"}}
    \cup {[status |-> st, kind |-> "list", items |-> b] :
            st \in {"2xx", "non2xx"}, b \in ListBodies}

\* The JSON object of the detail response: either key may be missing.
Dict(K, s, l) == [k \in K |-> IF k = "sha" THEN s ELSE l]
DetailObjects ==
    {Dict(K, s, l) : K \in SUBSET {"sha", "lastModified"},
                     s \in ShaValues, l \in LastModValues}

DetailResponses ==
    {[status |-> "neterr", kind |-> "none", data |-> EmptyDict]}
    \cup {[status |-> st, kind |-> k, data |-> EmptyDict] :
            st \in {"2xx", "non2xx"}, k \in {"invalid", "list"}}
    \cup {[status |-> st, kind |-> "object", data |-> d] :
            st \in {"2xx", "non2xx"}, d \in DetailObjects}

NoResp == [status |-> "none", kind |-> "none"]
Summary(r) == [status |-> r.status, kind |-> r.kind]

\* os.environ.get(...): unset, empty or set
TokenValues == {None, Some(""), Some("123:abc")}
ChatIdValues == {None, Some(""), Some("42")}
\* the POST: answers ok, answers with an error status, or raises
PostOutcomes == {"ok", "not_ok", "exception"}

\* --------------------------------------------------------------- snapshots
Snapshot(sp, mo, ws, t) ==
    [space_ids |-> sp, model_ids |-> mo, watched_space |-> ws, checked_at |-> t]

SortedLists == {sorted(b) : b \in ListBodies}
Details == {[sha |-> s, lastModified |-> l] : s \in ShaValues, l \in LastModValues}
\* the snapshots main() can have written at time t
Snapshots(t) ==
    {Snapshot(sp, mo, ws, t) : sp \in SortedLists, mo \in SortedLists, ws \in Details}

\* -------------------------------------------------------------------- state
VARIABLES
    pc,           \* position of the process: idle, get_spaces, ..., done
    clock,        \* datetime.now(): the number of the current run
    file,         \* state.json: None (absent) or Some(snapshot)
    file_before,  \* state.json when the current run started
    prev,         \* the last run that ended normally: what it fetched and sent
    resp,         \* status and body kind of the GET responses, until load_state
    spaces,       \* fetch_repo_lists: spaces (parsed body)
    models,       \* fetch_repo_lists: models (parsed body)
    repos,        \* main: repos
    new_state,    \* main: new_state
    old_state,    \* main: old_state
    changes,      \* main: changes
    sent,         \* main: sent
    creds,        \* send_telegram: token and chat_id as read from os.environ
    posts,        \* number of POST requests issued by the run
    stdout,       \* what the run printed
    exit_code,    \* exit code of the process, None while it runs
    exc           \* the uncaught exception that ended the run, if any

vars == <<pc, clock, file, file_before, prev, resp, spaces, models, repos,
          new_state, old_state, changes, sent, creds, posts, stdout,
          exit_code, exc>>

\* print(...): the text and what is formatted into it
Line(text, arg) == [text |-> text, arg |-> arg]
Printed(text) == \E i \in DOMAIN stdout : stdout[i].text = text

NoCreds == [token |-> None, chat_id |-> None, read |-> FALSE]

Init ==
    /\ pc = "idle"
    /\ clock = 0
    /\ file \in {None} \cup {Some(s) : s \in Snapshots(0)}
    /\ file_before = file
    /\ prev = IF file = None THEN None
              ELSE Some([state |-> file[1], reported |-> FALSE, sent |-> None])
    /\ resp = [r \in {"spaces", "models", "detail"} |-> NoResp]
    /\ spaces = None
    /\ models = None
    /\ repos = None
    /\ new_state = None
    /\ old_state = None
    /\ changes = <<>>
    /\ sent = None
    /\ creds = NoCreds
    /\ posts = 0
    /\ stdout = <<>>
    /\ exit_code = None
    /\ exc = None

\* python notifier.py: a new process
StartRun ==
    /\ pc \in {"idle", "done"}
    /\ clock < MaxClock
    /\ pc' = "get_spaces"
    /\ clock' = clock + 1
    /\ file_before' = file
    /\ resp' = [r \in {"spaces", "models", "detail"} |-> NoResp]
    /\ spaces' = None
    /\ models' = None
    /\ repos' = None
    /\ new_state' = None
    /\ old_state' = None
    /\ changes' = <<>>
    /\ sent' = None
    /\ creds' = NoCreds
    /\ posts' = 0
    /\ stdout' = <<>>
    /\ exit_code' = None
    /\ exc' = None
    /\ UNCHANGED <<file, prev>>

\* main, lines 111-113: the except clause
FetchFailed_wipes ==
    /\ stdout' = Append(stdout, Line("API fetch failed: ", None))
    /\ exit_code' = Some(1)
    /\ pc' = "done"
    /\ file' = None
    /\ UNCHANGED <<prev, exc>>

FetchFailed ==
    /\ stdout' = Append(stdout, Line("API fetch failed: ", None))
    /\ exit_code' = Some(1)
    /\ pc' = "done"
    /\ UNCHANGED <<file, prev, exc>>

\* an exception no handler catches: traceback, exit code 1
Uncaught(e) ==
    /\ exc' = Some(e)
    /\ exit_code' = Some(1)
    /\ pc' = "done"
    /\ UNCHANGED <<file, prev, stdout>>

\* requests.get(...).json() of a listing: RequestException when the request
\* fails, a ValueError when the body is not JSON; the status is not looked at
ListingRaises(r) == r.status = "neterr" \/ r.kind = "invalid"

\* fetch_repo_lists, lines 16-20
FetchSpaces ==
    /\ pc = "get_spaces"
    /\ \E r \in ListResponses :
        /\ resp' = [resp EXCEPT !["spaces"] = Summary(r)]
        /\ IF ListingRaises(r)
           THEN FetchFailed /\ UNCHANGED spaces
           ELSE /\ spaces' = Some([kind |-> r.kind, items |-> r.items])
                /\ pc' = "get_models"
                /\ UNCHANGED <<file, prev, stdout, exit_code, exc>>
    /\ UNCHANGED <<clock, file_before, models, repos, new_state, old_state,
                   changes, sent, creds, posts>>

\* fetch_repo_lists, lines 21-29: s["id"] for s in a JSON object iterates its
\* keys, and indexing a str with "id" raises TypeError
FetchModels ==
    /\ pc = "get_models"
    /\ \E r \in ListResponses :
        /\ resp' = [resp EXCEPT !["models"] = Summary(r)]
        /\ IF ListingRaises(r)
           THEN FetchFailed /\ UNCHANGED <<spaces, models, repos>>
           ELSE IF spaces[1].kind = "object" \/ r.kind = "object"
           THEN Uncaught("TypeError") /\ UNCHANGED <<spaces, models, repos>>
           ELSE /\ repos' = Some([space_ids |-> sorted(spaces[1].items),
                                  model_ids |-> sorted(r.items)])
                /\ spaces' = None
                /\ models' = None
                /\ pc' = "get_detail"
                /\ UNCHANGED <<file, prev, stdout, exit_code, exc>>
    /\ UNCHANGED <<clock, file_before, new_state, old_state,
                   changes, sent, creds, posts>>

\* resp.raise_for_status(); resp.json() of the detail request
DetailRaises(r) ==
    r.status = "neterr" \/ r.status = "non2xx" \/ r.kind = "invalid"

\* fetch_space_detail, lines 33-42, and main, lines 115-119
FetchDetail ==
    /\ pc = "get_detail"
    /\ \E r \in DetailResponses :
        /\ resp' = [resp EXCEPT !["detail"] = Summary(r)]
        /\ IF DetailRaises(r)
           THEN FetchFailed /\ UNCHANGED <<repos, new_state>>
           ELSE IF r.kind = "list"
           THEN Uncaught("AttributeError") /\ UNCHANGED <<repos, new_state>>
           ELSE /\ new_state' =
                     Some(Snapshot(repos[1].space_ids, repos[1].model_ids,
                                   [sha |-> Get(r.data, "sha", None),
                                    lastModified |-> Get(r.data, "lastModified", None)],
                                   clock))
                /\ repos' = None
                /\ pc' = "load"
                /\ UNCHANGED <<file, prev, stdout, exit_code, exc>>
    /\ UNCHANGED <<clock, file_before, spaces, models, old_state,
                   changes, sent, creds, posts>>

\* save_state, lines 52-55
save_state(state) == file' = Some(state)

\* the run ends normally: return from main, exit code 0
Return ==
    /\ exit_code' = Some(0)
    /\ pc' = "done"
    /\ prev' = Some([state |-> new_state[1], reported |-> changes # <<>>,
                     sent |-> sent])

\* load_state, lines 45-49, and main, lines 121-126
LoadState_default ==
    /\ pc = "load"
    /\ old_state' = IF file = None
                    THEN Some(Snapshot(<<>>, <<>>, [sha |-> None, lastModified |-> None], 0))
                    ELSE file
    /\ pc' = "detect"
    /\ resp' = [r \in {"spaces", "models", "detail"} |-> NoResp]
    /\ UNCHANGED <<clock, file, file_before, prev, stdout, exit_code, spaces, models,
                   repos, new_state, changes, sent, creds, posts, exc>>

LoadState ==
    /\ pc = "load"
    /\ old_state' = file
    /\ IF file = None
       THEN /\ stdout' = Append(stdout, Line("First run", None))
            /\ save_state(new_state[1])
            /\ Return
       ELSE /\ pc' = "detect"
            /\ UNCHANGED <<file, prev, stdout, exit_code>>
    /\ resp' = [r \in {"spaces", "models", "detail"} |-> NoResp]
    /\ UNCHANGED <<clock, file_before, spaces, models, repos, new_state,
                   changes, sent, creds, posts, exc>>

\* main, lines 128-135 without the delivery
DetectChanges ==
    /\ pc = "detect"
    /\ changes' = detect_changes(old_state[1], new_state[1])
    /\ IF changes' # <<>>
       THEN pc' = "notify" /\ UNCHANGED stdout
       ELSE pc' = "save" /\ stdout' = Append(stdout, Line("No changes detected.", None))
    /\ UNCHANGED <<clock, file, file_before, prev, resp, spaces, models, repos,
                   new_state, old_state, sent, creds, posts, exit_code, exc>>

\* send_telegram, line 93
NotConfigured_and(token, chat_id) == ~Truthy(token) /\ ~Truthy(chat_id)

NotConfigured(token, chat_id) == ~Truthy(token) \/ ~Truthy(chat_id)

\* main, line 133
DetectedLine(s) == Line("Detected change(s). Telegram sent: ", Some(<<Len(changes), s>>))

\* format_alert and send_telegram, lines 90-104, and main, lines 131-133
Notify ==
    /\ pc = "notify"
    /\ \E token \in TokenValues, chat_id \in ChatIdValues, outcome \in PostOutcomes :
        LET message == format_alert(changes) IN
        /\ creds' = [token |-> token, chat_id |-> chat_id, read |-> TRUE]
        /\ IF NotConfigured(token, chat_id)
           THEN /\ stdout' = stdout \o
                     <<Line("Telegram not configured. Would have sent:", Some(message)),
                       DetectedLine(FALSE)>>
                /\ sent' = Some(FALSE)
                /\ pc' = "save"
                /\ UNCHANGED <<posts, exit_code, exc>>
           ELSE /\ posts' = posts + 1
                /\ IF outcome = "exception"
                   THEN /\ exc' = Some("RequestException")
                        /\ exit_code' = Some(1)
                        /\ pc' = "done"
                        /\ UNCHANGED <<stdout, sent>>
                   ELSE IF outcome = "not_ok"
                   THEN /\ stdout' = stdout \o
                             <<Line("Telegram API error: ", None), DetectedLine(FALSE)>>
                        /\ sent' = Some(FALSE)
                        /\ pc' = "save"
                        /\ UNCHANGED <<exit_code, exc>>
                   ELSE /\ stdout' = Append(stdout, DetectedLine(TRUE))
                        /\ sent' = Some(TRUE)
                        /\ pc' = "save"
                        /\ UNCHANGED <<exit_code, exc>>
    /\ UNCHANGED <<clock, file, file_before, prev, resp, spaces, models, repos,
                   new_state, old_state, changes>>

\* main, line 137
SaveState_ifsent ==
    /\ pc = "save"
    /\ IF sent = Some(FALSE) THEN UNCHANGED file ELSE save_state(new_state[1])
    /\ Return
    /\ UNCHANGED <<clock, file_before, resp, spaces, models, repos, new_state,
                   old_state, changes, sent, creds, posts, stdout, exc>>

SaveState ==
    /\ pc = "save"
    /\ save_state(new_state[1])
    /\ Return
    /\ UNCHANGED <<clock, file_before, resp, spaces, models, repos, new_state,
                   old_state, changes, sent, creds, posts, stdout, exc>>

Next ==
    \/ StartRun
    \/ FetchSpaces
    \/ FetchModels
    \/ FetchDetail
    \/ LoadState
    \/ DetectChanges
    \/ Notify
    \/ SaveState

Spec == Init /\ [][Next]_vars

\* ----------------------------------------------- detect_changes on its own
\* The listings a snapshot can hold: sorted, duplicates allowed.
SortedInputs == {sorted(s) : s \in UNION {[1..n -> Ids] : n \in 0..MaxLen}}

\* An old snapshot: as written by main, or without its "watched_space" key,
\* or with a watched_space that has no "sha" key.
OldDetails == Details \cup {[lastModified |-> l] : l \in LastModValues}
OldInputs ==
    {Snapshot(sp, mo, ws, 0) : sp \in SortedInputs, mo \in SortedInputs, ws \in OldDetails}
    \cup {[space_ids |-> sp, model_ids |-> mo, checked_at |-> 0] :
            sp \in SortedInputs, mo \in SortedInputs}
NewInputs ==
    {Snapshot(sp, mo, ws, 1) : sp \in SortedInputs, mo \in SortedInputs, ws \in Details}

DetectInit ==
    /\ pc = "detect_in"
    /\ clock = 1
    /\ file = None
    /\ file_before = None
    /\ prev = None
    /\ resp = [r \in {"spaces", "models", "detail"} |-> NoResp]
    /\ spaces = None
    /\ models = None
    /\ repos = None
    /\ new_state \in {Some(s) : s \in NewInputs}
    /\ old_state \in {Some(s) : s \in OldInputs}
    /\ changes = <<>>
    /\ sent = None
    /\ creds = NoCreds
    /\ posts = 0
    /\ stdout = <<>>
    /\ exit_code = None
    /\ exc = None

\* changes = detect_changes(old_state, new_state)
DetectApply ==
    /\ pc = "detect_in"
    /\ changes' = detect_changes(old_state[1], new_state[1])
    /\ pc' = "detect_out"
    /\ UNCHANGED <<clock, file, file_before, prev, resp, spaces, models, repos,
                   new_state, old_state, sent, creds, posts, stdout, exit_code, exc>>

DetectNext == DetectApply

DetectSpec == DetectInit /\ [][DetectNext]_vars

\* ------------------------------------------------------------ properties
\* same content, checked_at aside
SameContent(a, b) ==
    /\ a["space_ids"] = b["space_ids"]
    /\ a["model_ids"] = b["model_ids"]
    /\ a["watched_space"] = b["watched_space"]

Requests == {"spaces", "models", "detail"}
AfterDetect == pc \in {"notify", "save", "done"} /\ old_state # None /\ new_state # None

\* a network error or a parse error in one of the three GET requests
NetOrParseError ==
    \E r \in Requests : resp[r].status = "neterr" \/ resp[r].kind = "invalid"

\* C1: a run in which a fetch fails with a network error or a parse error
\* leaves state.json as it was when the run started, absent included, and
\* sends no notification.
C1_FetchFailureKeepsSnapshot ==
    NetOrParseError =>
        /\ file = file_before
        /\ posts = 0
        /\ ~creds.read
        /\ sent = None
        /\ pc = "done" /\ exit_code = Some(1)

C1_Witness ==
    /\ pc = "done"
    /\ resp["spaces"].kind = "list"
    /\ resp["models"].kind = "list"
    /\ resp["detail"] = [status |-> "2xx", kind |-> "invalid"]
    /\ file # None
    /\ file = file_before
    /\ Printed("API fetch failed: ")

\* the run issued the POST and it was not answered with a success
DeliveryFailed == posts > 0 /\ sent # Some(TRUE)

\* C2: with a prior snapshot and a non-empty change list, every delivery
\* failure (an error status, or the POST raising) ends in 'not sent', the new
\* state saved and a normal end of the run.
C2_DeliveryFailureNonFatal ==
    (pc = "done" /\ old_state # None /\ changes # <<>> /\ DeliveryFailed) =>
        /\ sent = Some(FALSE)
        /\ file = new_state
        /\ exit_code = Some(0)
        /\ exc = None

\* C3: a first run whose fetches succeed computes no change list, sends
\* nothing, and ends with state.json holding exactly the fetched state.
C3_FirstRun ==
    (file_before = None /\ new_state # None) =>
        /\ pc \in {"load", "done"}
        /\ changes = <<>>
        /\ posts = 0
        /\ ~creds.read
        /\ sent = None
        /\ pc = "done" => (file = new_state /\ exit_code = Some(0))

C3_Witness ==
    /\ pc = "done"
    /\ file_before = None
    /\ new_state # None
    /\ new_state[1]["space_ids"] # <<>>
    /\ Truthy(new_state[1]["watched_space"]["sha"])
    /\ file = new_state
    /\ Printed("First run")

\* a non-2xx response, or a body that is not valid JSON
BadResponse(r) == resp[r].status = "non2xx" \/ resp[r].kind = "invalid"

\* C4: a non-2xx response or a body that is not valid JSON, in any of the
\* three GET requests, aborts the run with a diagnostic and exit code 1
\* before a snapshot is loaded, compared or saved.
C4_BadResponseAborts ==
    (\E r \in Requests : BadResponse(r)) =>
        /\ pc \notin {"load", "detect", "notify", "save"}
        /\ file = file_before
        /\ pc = "done" => exit_code = Some(1)

\* C5: the exit code is 1 when the run ends in the fetch step and 0 in every
\* other run.
C5_ExitCode ==
    pc = "done" =>
        exit_code = IF new_state = None THEN Some(1) ELSE Some(0)

\* number of entries of the change list with this text and identifier
Entries(text, id) ==
    Cardinality({i \in DOMAIN changes : changes[i].text = text /\ changes[i].id = id})

IsNew(old, new, key, id) == id \in SetOf(new[key]) /\ id \notin SetOf(old[key])

\* C6: detect_changes yields one HIGH 'New Space' entry for each identifier
\* in the new and not in the old space_ids, one MEDIUM 'New Model' entry for
\* each identifier in the new and not in the old model_ids, and no other
\* listing entry, duplicates and identifiers in both categories included.
C6_OneEntryPerNewId ==
    pc = "detect_out" =>
        LET old == old_state[1]
            new == new_state[1]
        IN  /\ \A id \in Ids :
                /\ Entries("New Space: ", id) = IF IsNew(old, new, "space_ids", id) THEN 1 ELSE 0
                /\ Entries("New Model: ", id) = IF IsNew(old, new, "model_ids", id) THEN 1 ELSE 0
            /\ \A i \in DOMAIN changes :
                /\ changes[i].text = "New Space: " =>
                       changes[i].priority = "HIGH" /\ changes[i].id \in Ids
                /\ changes[i].text = "New Model: " =>
                       changes[i].priority = "MEDIUM" /\ changes[i].id \in Ids
                /\ changes[i].text \in
                       {"New Space: ", "New Model: ", "Puzzle space updated (sha: "}

C6_Witness ==
    /\ pc = "detect_out"
    /\ new_state[1]["space_ids"] = <<IdOrder[1], IdOrder[1]>>
    /\ new_state[1]["model_ids"] = <<IdOrder[1], IdOrder[2]>>
    /\ old_state[1]["space_ids"] = <<IdOrder[2]>>
    /\ old_state[1]["model_ids"] = <<IdOrder[2], IdOrder[2]>>
    /\ Entries("New Space: ", IdOrder[1]) = 1
    /\ Entries("New Model: ", IdOrder[1]) = 1
    /\ Entries("New Model: ", IdOrder[2]) = 0

\* the sha of a snapshot's watched space, None when a key is missing
ShaOf(s) ==
    IF "watched_space" \in DOMAIN s /\ "sha" \in DOMAIN s["watched_space"]
    THEN s["watched_space"]["sha"] ELSE None

PuzzleEntries ==
    {i \in DOMAIN changes : changes[i].text = "Puzzle space updated (sha: "}

\* C7: detect_changes yields one MEDIUM 'Puzzle space updated' entry when the
\* sha is present and non-empty in the old and in the new snapshot and the two
\* differ, and none when it is empty, null or missing on a side or when the
\* two are equal, whatever lastModified is.
C7_ShaChange ==
    pc = "detect_out" =>
        LET o == ShaOf(old_state[1])
            n == ShaOf(new_state[1])
            both == o # None /\ o # Some(<<>>) /\ n # None /\ n # Some(<<>>)
        IN  /\ Cardinality(PuzzleEntries) = IF both /\ o # n THEN 1 ELSE 0
            /\ \A i \in PuzzleEntries :
                /\ changes[i].priority = "MEDIUM"
                /\ changes[i].sha = Take(n[1], ShaPrefixLen)

C7_Witness ==
    /\ pc = "detect_out"
    /\ ShaOf(old_state[1]) = Some(<<7>>)
    /\ ShaOf(new_state[1]) = Some(LongSha)
    /\ old_state[1]["watched_space"]["lastModified"] =
           new_state[1]["watched_space"]["lastModified"]
    /\ Cardinality(PuzzleEntries) = 1
    /\ Len(changes[Len(changes)].sha) = ShaPrefixLen

\* C8: when the old and the new snapshot have the same space_ids, model_ids
\* and watched_space, the change list is empty and the run sends nothing.
C8_IdenticalNoChange ==
    (AfterDetect /\ SameContent(old_state[1], new_state[1])) =>
        /\ changes = <<>>
        /\ pc # "notify"
        /\ posts = 0
        /\ ~creds.read
        /\ sent = None

C8_Witness ==
    /\ pc = "done"
    /\ AfterDetect
    /\ SameContent(old_state[1], new_state[1])
    /\ old_state[1]["checked_at"] # new_state[1]["checked_at"]
    /\ Len(new_state[1]["space_ids"]) = 2
    /\ Truthy(new_state[1]["watched_space"]["sha"])
    /\ Printed("No changes detected.")

\* C9: with the bot token or the chat id unset or empty, send_telegram issues
\* no POST, prints the message and returns False without raising, and the run
\* goes on to save the new snapshot.
C9_NoCredentials ==
    (creds.read /\ (~Truthy(creds.token) \/ ~Truthy(creds.chat_id))) =>
        /\ posts = 0
        /\ sent = Some(FALSE)
        /\ exc = None
        /\ \E i \in DOMAIN stdout :
              /\ stdout[i].text = "Telegram not configured. Would have sent:"
              /\ stdout[i].arg = Some(format_alert(changes))
        /\ pc \in {"save", "done"}
        /\ pc = "done" => (file = new_state /\ exit_code = Some(0))

C9_Witness ==
    /\ pc = "done"
    /\ creds.read
    /\ creds.token = Some("123:abc")
    /\ creds.chat_id = Some("")
    /\ sent = Some(FALSE)
    /\ changes # <<>>
    /\ file = new_state

====
